---- MODULE Spec2Model ----
(***************************************************************************)
(* The parser engine of cas-parser (src/cas-parser/src/parser/mod.rs): a   *)
(* cursor over a fixed token stream, primitive token consumption, span     *)
(* queries and the backtracking combinators try_parse, try_parse_with_fn,  *)
(* try_parse_then and try_parse_full.                                      *)
(*                                                                         *)
(* A combinator runs a caller-supplied parse function between its first    *)
(* and its last statement.  The parse function is any sequence of parser   *)
(* operations followed by a result, so a combinator is entered (its frame  *)
(* is pushed with the recorded cursor), the operations of the parse        *)
(* function happen as steps of their own, and the combinator is exited     *)
(* with the result the parse function returns.                             *)
(***************************************************************************)
EXTENDS Integers, Sequences, FiniteSets, TLC

\* ------------------------------------------------------------------ bounds
MaxTokens == 2   \* longest token stream
MaxWidth  == 1   \* widest token, in bytes
MaxDepth  == 2   \* deepest nesting of combinator calls

\* ------------------------------------------------------------------- state
VARIABLES
    tokens,   \* Parser.tokens: the token stream, fixed after construction
    cursor,   \* Parser.cursor: index (from 0) of the next token to be parsed
    stack,    \* the combinator calls in progress, innermost last
    last,     \* the operation that returned last, with what it returned
    evaluating, \* the nodes whose eval is in progress, outermost first
    returned,   \* what the eval that returned last returned
    trace,      \* the steps of the evaluation so far
    diag,       \* the error to report: its spans and its kind
    report      \* the report built from diag

evalVars   == <<evaluating, returned, trace>>
reportVars == <<diag, report>>
vars == <<tokens, cursor, stack, last, evalVars, reportVars>>

\* ------------------------------------------------------------------ values
Range(s, e) == [start |-> s, end |-> e]

NoError == [span |-> Range(0, 0), kind |-> "none"]
NoToken == [ws |-> FALSE, span |-> Range(0, 0), index |-> 0]

\* Error::new(span, kind)
Error_new(sp, kind) == [span |-> sp, kind |-> kind]

Ok(v)  == [ret |-> "Ok",  tok |-> v,       err |-> NoError]
Err(e) == [ret |-> "Err", tok |-> NoToken, err |-> e]
None   == [ret |-> "None", tok |-> NoToken, err |-> NoError]
Unit   == NoToken

\* the error kinds a parse function or a predicate builds with error(kind)
\* and non_fatal()
FnKinds == {"UnexpectedToken", "NonFatal"}

\* ------------------------------------------------------------- token stream
\* tokenize_complete: an ordered stream of tokens with contiguous, non-empty,
\* half-open byte spans; whitespace tokens are part of the stream.
RECURSIVE SumWidth(_, _)
SumWidth(shape, n) == IF n = 0 THEN 0 ELSE SumWidth(shape, n - 1) + shape[n].width

tokenize_complete(shape) ==
    [i \in 1..Len(shape) |->
        [ws    |-> shape[i].ws,
         span  |-> Range(SumWidth(shape, i - 1), SumWidth(shape, i)),
         index |-> i]]

Shapes == UNION {[1..n -> [ws : BOOLEAN, width : 1..MaxWidth]] : n \in 0..MaxTokens}

\* Token::is_whitespace
is_whitespace(token) == token.ws

\* ------------------------------------------------------- Parser, read-only
\* eof_span that points at the last token instead of the end of the source
eof_span_last_token(toks) ==
    IF Len(toks) = 0 THEN Range(0, 0) ELSE toks[Len(toks)].span

\* Parser::eof_span
eof_span(toks) ==
    IF Len(toks) = 0 THEN Range(0, 0)
    ELSE Range(toks[Len(toks)].span.end, toks[Len(toks)].span.end)

\* span that reads the token after the cursor
span_off_by_one(toks, cur) ==
    IF cur + 1 < Len(toks) THEN toks[cur + 2].span ELSE eof_span(toks)

\* Parser::span
span(toks, cur) ==
    IF cur < Len(toks) THEN toks[cur + 1].span ELSE eof_span(toks)

\* Parser::error
error(toks, cur, kind) == Error_new(span(toks, cur), kind)

\* Parser::non_fatal
non_fatal(toks, cur) == Error_new(span(toks, cur), "NonFatal")

\* prev_token that reads the token at the cursor
prev_token_current(toks, cur) ==
    IF cur >= Len(toks) THEN None ELSE Ok(toks[cur + 1])

\* Parser::prev_token
prev_token(toks, cur) ==
    IF cur = 0 \/ cur - 1 >= Len(toks) THEN None ELSE Ok(toks[cur])

\* next_token that returns whitespace tokens like any other token
next_token_no_skip(toks, cur) ==
    IF cur < Len(toks)
    THEN [cursor |-> cur + 1, res |-> Ok(toks[cur + 1])]
    ELSE [cursor |-> cur, res |-> Err(error(toks, cur, "UnexpectedEof"))]

\* next_token that advances the cursor before it tests for the end
RECURSIVE next_token_overrun(_, _)
next_token_overrun(toks, cur) ==
    IF cur < Len(toks)
    THEN LET token == toks[cur + 1]
         IN  IF is_whitespace(token)
             THEN next_token_overrun(toks, cur + 1)
             ELSE [cursor |-> cur + 1, res |-> Ok(token)]
    ELSE [cursor |-> cur + 1, res |-> Err(error(toks, cur, "UnexpectedEof"))]

\* next_token that looks ahead for a token and moves only when it finds one
RECURSIVE next_token_peek(_, _, _)
next_token_peek(toks, cur, from) ==
    IF cur < Len(toks)
    THEN LET token == toks[cur + 1]
         IN  IF is_whitespace(token)
             THEN next_token_peek(toks, cur + 1, from)
             ELSE [cursor |-> cur + 1, res |-> Ok(token)]
    ELSE [cursor |-> from, res |-> Err(error(toks, cur, "UnexpectedEof"))]

next_token_keep(toks, cur) == next_token_peek(toks, cur, cur)

\* next_token that reports the end of the stream with the other EOF kind
RECURSIVE next_token_expected_eof(_, _)
next_token_expected_eof(toks, cur) ==
    IF cur < Len(toks)
    THEN LET token == toks[cur + 1]
         IN  IF is_whitespace(token)
             THEN next_token_expected_eof(toks, cur + 1)
             ELSE [cursor |-> cur + 1, res |-> Ok(token)]
    ELSE [cursor |-> cur, res |-> Err(error(toks, cur, "ExpectedEof"))]

\* Parser::next_token: the cursor and the result after the call
RECURSIVE next_token(_, _)
next_token(toks, cur) ==
    IF cur < Len(toks)
    THEN LET token == toks[cur + 1]
         IN  IF is_whitespace(token)
             THEN next_token(toks, cur + 1)
             ELSE [cursor |-> cur + 1, res |-> Ok(token)]
    ELSE [cursor |-> cur, res |-> Err(error(toks, cur, "UnexpectedEof"))]

\* ------------------------------------------------------------- combinators
\* try_parse_with_fn that never restores the cursor
try_parse_with_fn_no_restore(toks, start, cur, r) ==
    [cursor |-> cur, res |-> r]

\* try_parse_with_fn that restores the cursor whatever f returned
try_parse_with_fn_always_restore(toks, start, cur, r) ==
    [cursor |-> start, res |-> r]

\* try_parse_with_fn that rebuilds the error at the restored cursor
try_parse_with_fn_respan(toks, start, cur, r) ==
    IF r.ret = "Ok"
    THEN [cursor |-> cur,   res |-> r]
    ELSE [cursor |-> start, res |-> Err(error(toks, start, r.err.kind))]

\* Parser::try_parse_with_fn, from the return of f: r is what f returned,
\* cur the cursor f left, start the cursor recorded on entry
try_parse_with_fn(toks, start, cur, r) ==
    IF r.ret = "Ok"
    THEN [cursor |-> cur,   res |-> r]
    ELSE [cursor |-> start, res |-> r]

\* Parser::try_parse
try_parse(toks, start, cur, r) == try_parse_with_fn(toks, start, cur, r)

\* compute that drops the result of the predicate
compute_ignore_predicate(r, p) == r

\* the closure `compute` of try_parse_then: r is what T::parse returned, p
\* what the predicate returns when it is run
compute(r, p) ==
    IF r.ret # "Ok" THEN r
    ELSE IF p.ret # "Ok" THEN Err(p.err)
    ELSE r

\* try_parse_then that restores the cursor only when the parse failed
try_parse_then_pred_outside(toks, start, cur, r, p) ==
    IF r.ret # "Ok" THEN [cursor |-> start, res |-> r]
    ELSE [cursor |-> cur, res |-> compute(r, p)]

\* Parser::try_parse_then, from the return of T::parse
try_parse_then(toks, start, cur, r, p) ==
    LET c == compute(r, p)
    IN  IF c.ret = "Ok"
        THEN [cursor |-> cur,   res |-> c]
        ELSE [cursor |-> start, res |-> c]

\* try_parse_full that backtracks like the speculative combinators
try_parse_full_restore(toks, start, cur, r) ==
    IF r.ret # "Ok" THEN [cursor |-> start, res |-> r]
    ELSE IF cur = Len(toks) THEN [cursor |-> cur, res |-> r]
    ELSE [cursor |-> start, res |-> Err(error(toks, cur, "ExpectedEof"))]

\* try_parse_full that reports unconsumed tokens with non_fatal()
try_parse_full_non_fatal(toks, start, cur, r) ==
    IF r.ret # "Ok" THEN [cursor |-> cur, res |-> r]
    ELSE IF cur = Len(toks) THEN [cursor |-> cur, res |-> r]
    ELSE [cursor |-> cur, res |-> Err(non_fatal(toks, cur))]

\* Parser::try_parse_full, from the return of T::parse
try_parse_full(toks, start, cur, r) ==
    IF r.ret # "Ok" THEN [cursor |-> cur, res |-> r]
    ELSE IF cur = Len(toks) THEN [cursor |-> cur, res |-> r]
    ELSE [cursor |-> cur, res |-> Err(error(toks, cur, "ExpectedEof"))]

\* ------------------------------------------------------------------ frames
BacktrackOps == {"try_parse", "try_parse_with_fn", "try_parse_then"}
CombinatorOps == BacktrackOps \cup {"try_parse_full"}

Frame(op, start) == [op |-> op, start |-> start]

Top == stack[Len(stack)]
Pop == SubSeq(stack, 1, Len(stack) - 1)

\* what a parse function can return in the current state: a value, an error
\* built at the current position, or the error of the call that failed last
\* (propagated with `?`)
FnResults ==
    {Ok(Unit)}
    \cup {Err(error(tokens, cursor, k)) : k \in FnKinds}
    \cup (IF last.res.ret = "Err" THEN {last.res} ELSE {})

\* what a predicate can return: it reads the parser and cannot move it
PredResults ==
    {Ok(Unit)} \cup {Err(error(tokens, cursor, k)) : k \in FnKinds}

\* what the operation that returned last did: its name, its argument, the
\* cursor when it was called (before) and when its parse function returned
\* (fcursor), what the parse function (fres) and the predicate (pres)
\* returned, what the operation returned (res), and whether the last thing
\* its parse function did was a nested call that consumed tokens and
\* succeeded (inner)
Event(op, arg, before, res) ==
    [op |-> op, arg |-> arg, before |-> before, fcursor |-> before,
     fres |-> None, pres |-> None, res |-> res, inner |-> FALSE]

CallEvent(op, before, fcursor, fres, pres, res, inner) ==
    [op |-> op, arg |-> "", before |-> before, fcursor |-> fcursor,
     fres |-> fres, pres |-> pres, res |-> res, inner |-> inner]

\* nothing has returned yet inside a call that has just been entered
Entered == Event("enter", "", 0, None)

\* -------------------------------------------------------------------- Init
\* Parser::new
\* no evaluation and no report is in progress
NoEval   == evaluating = <<>> /\ returned = None /\ trace = <<>>
NoReport == diag = None /\ report = None

Init ==
    /\ tokens \in {tokenize_complete(s) : s \in Shapes}
    /\ cursor = 0
    /\ stack = <<>>
    /\ last = Event("new", "", 0, None)
    /\ NoEval
    /\ NoReport

\* ----------------------------------------------------------------- actions
\* a call of next_token, by the caller or by a parse function
NextToken ==
    LET n == next_token(tokens, cursor)
    IN  /\ cursor' = n.cursor
        /\ last' = Event("next_token", "", cursor, n.res)
        /\ UNCHANGED <<tokens, stack, evalVars, reportVars>>

\* a call of span(): the value returned is a span
SpanCall ==
    /\ last' = Event("span", "", cursor,
                     [ret |-> "Ok", tok |-> [NoToken EXCEPT !.span = span(tokens, cursor)],
                      err |-> NoError])
    /\ UNCHANGED <<tokens, cursor, stack, evalVars, reportVars>>

\* a call of error(kind): the value returned is an error
ErrorCall ==
    \E kind \in {"UnexpectedToken", "ExpectedEof"} :
        /\ last' = Event("error", kind, cursor,
                         [ret |-> "Ok", tok |-> NoToken, err |-> error(tokens, cursor, kind)])
        /\ UNCHANGED <<tokens, cursor, stack, evalVars, reportVars>>

\* a call of non_fatal(): the value returned is an error
NonFatalCall ==
    /\ last' = Event("non_fatal", "", cursor,
                     [ret |-> "Ok", tok |-> NoToken, err |-> non_fatal(tokens, cursor)])
    /\ UNCHANGED <<tokens, cursor, stack, evalVars, reportVars>>

\* a call of prev_token()
PrevToken ==
    /\ last' = Event("prev_token", "", cursor, prev_token(tokens, cursor))
    /\ UNCHANGED <<tokens, cursor, stack, evalVars, reportVars>>

\* entry of a combinator: `let start = self.cursor`, then the parse function
\* starts to run
Enter(op) ==
    /\ Len(stack) < MaxDepth
    /\ stack' = Append(stack, Frame(op, cursor))
    /\ last' = Entered
    /\ UNCHANGED <<tokens, cursor, evalVars, reportVars>>

TryParseEnter       == Enter("try_parse")
TryParseWithFnEnter == Enter("try_parse_with_fn")
TryParseThenEnter   == Enter("try_parse_then")
TryParseFullEnter   == Enter("try_parse_full")

\* the parse function of the innermost call returns r (and the predicate p);
\* the combinator finishes with the outcome out and returns
Exit(op, out, r, p) ==
    /\ cursor' = out.cursor
    /\ stack' = Pop
    /\ last' = CallEvent(op, Top.start, cursor, r, p, out.res,
                         /\ last.op \in CombinatorOps
                         /\ last.res.ret = "Ok"
                         /\ last.fcursor > last.before)
    /\ UNCHANGED <<tokens, evalVars, reportVars>>

TryParseExit ==
    /\ stack # <<>> /\ Top.op = "try_parse"
    /\ \E r \in FnResults :
        Exit("try_parse", try_parse(tokens, Top.start, cursor, r), r, None)

TryParseWithFnExit ==
    /\ stack # <<>> /\ Top.op = "try_parse_with_fn"
    /\ \E r \in FnResults :
        Exit("try_parse_with_fn", try_parse_with_fn(tokens, Top.start, cursor, r), r, None)

TryParseThenExit ==
    /\ stack # <<>> /\ Top.op = "try_parse_then"
    /\ \E r \in FnResults :
        \E p \in (IF r.ret = "Ok" THEN PredResults ELSE {None}) :
            Exit("try_parse_then", try_parse_then(tokens, Top.start, cursor, r, p), r, p)

TryParseFullExit ==
    /\ stack # <<>> /\ Top.op = "try_parse_full"
    /\ \E r \in FnResults :
        Exit("try_parse_full", try_parse_full(tokens, Top.start, cursor, r), r, None)

Next ==
    \/ NextToken
    \/ SpanCall
    \/ ErrorCall
    \/ NonFatalCall
    \/ PrevToken
    \/ TryParseEnter
    \/ TryParseWithFnEnter
    \/ TryParseThenEnter
    \/ TryParseFullEnter
    \/ TryParseExit
    \/ TryParseWithFnExit
    \/ TryParseThenExit
    \/ TryParseFullExit

Spec == Init /\ [][Next]_vars

\* ------------------------------------------------------------ construction
\* what the tokenizer returns for a source text: the token stream, or its
\* error when the text cannot be tokenized
TokenizerError == Error_new(Range(0, 0), "TokenizerError")

Sources ==
    {[valid |-> TRUE, shape |-> s] : s \in Shapes}
    \cup {[valid |-> FALSE, shape |-> <<>>]}

tokenize_result(source) ==
    IF source.valid
    THEN [ret |-> "Ok",  value |-> tokenize_complete(source.shape), err |-> NoError]
    ELSE [ret |-> "Err", value |-> <<>>, err |-> TokenizerError]

\* a panic of the calling thread, with the error it reports
Panic(e) == [ret |-> "Panic", tok |-> NoToken, err |-> e]

\* Result::unwrap
unwrap(r) == IF r.ret = "Ok" THEN Ok(Unit) ELSE Panic(r.err)

\* Parser::new: `tokens: tokenize_complete(source).unwrap(), cursor: 0`
Parser_new(source) ==
    LET t == tokenize_result(source)
    IN  [tokens |-> t.value, cursor |-> 0, res |-> unwrap(t)]

\* no parser has been constructed yet
NotConstructed == Event("start", "", 0, None)

InitNew ==
    /\ tokens = <<>>
    /\ cursor = 0
    /\ stack = <<>>
    /\ last = NotConstructed
    /\ NoEval
    /\ NoReport

\* a call of Parser::new
New ==
    /\ last = NotConstructed
    /\ \E source \in Sources :
        LET p == Parser_new(source)
        IN  /\ tokens' = p.tokens
            /\ cursor' = p.cursor
            /\ last' = IF p.res.ret = "Ok"
                       THEN Event("new", "", 0, None)
                       ELSE Event("new", "invalid", 0, p.res)
            /\ UNCHANGED <<stack, evalVars, reportVars>>

\* a parser exists: new has returned one
Constructed == last # NotConstructed /\ last.res.ret # "Panic"

\* construction, then the primitive operations and the top-level entry point
\* on the parser it returned
NextNew ==
    \/ New
    \/ Constructed /\ NextToken
    \/ Constructed /\ SpanCall
    \/ Constructed /\ ErrorCall
    \/ Constructed /\ NonFatalCall
    \/ Constructed /\ PrevToken
    \/ Constructed /\ TryParseFullEnter
    \/ Constructed /\ TryParseFullExit

SpecNew == InitNew /\ [][NextNew]_vars

\* ------------------------------------------------------ expression grammar
\* The expression grammar built on the parser engine: tokens with a kind,
\* operators with a precedence and an associativity, and the precedence
\* climbing parse functions.  A parse function takes the token stream and
\* the cursor and returns the cursor it leaves and its result.
MaxExprTokens == 3   \* longest stream of arbitrary tokens
MaxOperands   == 4   \* most operands in a chain of binary operators
MaxPrefix     == 4   \* most prefix operators before a primary
MaxPostfix    == 3   \* most postfix operators after a primary

\* Precedence with exponentiation ranked with the terms
Precedence_exp_as_term ==
    [Any |-> 0, Term |-> 1, Factor |-> 2, Exp |-> 1, Factorial |-> 4,
     Neg |-> 5, Not |-> 6]

\* enum Precedence, compared by its discriminant (`as u8`)
Precedence ==
    [Any |-> 0, Term |-> 1, Factor |-> 2, Exp |-> 3, Factorial |-> 4,
     Neg |-> 5, Not |-> 6]

BinOpKinds   == {"Add", "Sub", "Mul", "Div", "Mod", "Exp"}
PrefixKinds  == {"Not", "Neg"}
PostfixKinds == {"Factorial"}
TokenKinds   == {"Int", "Add", "Sub", "Mul", "Div", "Mod", "Exp", "Not",
                 "Factorial", "Whitespace"}

\* BinOp::precedence
bin_precedence(op) ==
    CASE op \in {"Add", "Sub"}        -> Precedence.Term
      [] op \in {"Mul", "Div", "Mod"} -> Precedence.Factor
      [] op = "Exp"                   -> Precedence.Exp

\* BinOp::associativity
bin_associativity(op) == IF op = "Exp" THEN "Right" ELSE "Left"

\* the byte width of a token of the given kind: `not` is three bytes, and
\* every other token here is one
KindWidth(kind) == IF kind = "Not" THEN 1 + 2 ELSE 1

RECURSIVE KindOffset(_, _)
KindOffset(kinds, n) ==
    IF n = 0 THEN 0 ELSE KindOffset(kinds, n - 1) + KindWidth(kinds[n])

\* the token stream of a source text given by the kinds of its tokens
tokenize_kinds(kinds) ==
    [i \in 1..Len(kinds) |->
        [ws    |-> kinds[i] = "Whitespace",
         kind  |-> kinds[i],
         span  |-> Range(KindOffset(kinds, i - 1), KindOffset(kinds, i)),
         index |-> i]]

\* AST nodes
LiteralNode(token) == [node |-> "Literal", span |-> token.span]
UnaryNode(operand, op, sp) ==
    [node |-> "Unary", operand |-> operand, op |-> op.kind, span |-> sp]
BinaryNode(lhs, op, rhs) ==
    [node |-> "Binary", lhs |-> lhs, op |-> op.kind, rhs |-> rhs,
     span |-> Range(lhs.span.start, rhs.span.end)]

\* parse of one token that must be of one of the given kinds
parse_kind(toks, cur, kinds) ==
    LET n == next_token(toks, cur)
    IN  IF n.res.ret = "Ok" /\ n.res.tok.kind \notin kinds
        THEN [cursor |-> n.cursor,
              res |-> Err(Error_new(n.res.tok.span, "UnexpectedToken"))]
        ELSE n

\* BinOp::parse
BinOp_parse(toks, cur) ==
    LET n == parse_kind(toks, cur, BinOpKinds)
    IN  IF n.res.ret = "Ok"
        THEN [cursor |-> n.cursor,
              res |-> Ok([kind |-> n.res.tok.kind, span |-> n.res.tok.span])]
        ELSE n

\* UnaryOp::parse: `-` as a unary operator is Neg
UnaryOp_parse(toks, cur) ==
    LET n == parse_kind(toks, cur, {"Not", "Sub", "Factorial"})
    IN  IF n.res.ret = "Ok"
        THEN [cursor |-> n.cursor,
              res |-> Ok([kind |-> IF n.res.tok.kind = "Sub" THEN "Neg"
                                   ELSE n.res.tok.kind,
                          span |-> n.res.tok.span])]
        ELSE n

\* the value of a singleton set: The({e : x \in {v}}) is e with x bound to
\* the value of v, which is computed once
The(S) == CHOOSE x \in S : TRUE

\* try_parse_then of an operator with the predicate `the operator is one of
\* allowed`, which fails with a non-fatal error
try_op(toks, cur, parsed, allowed) ==
    The({try_parse_then(toks, cur, p.cursor, p.res,
             IF p.res.ret # "Ok" THEN None
             ELSE IF p.res.tok.kind \in allowed THEN Ok(Unit)
             ELSE Err(non_fatal(toks, p.cursor)))
         : p \in {parsed}})

\* try_parse_with_fn of a parse function that returned `parsed`
try_fn(toks, cur, parsed) ==
    The({try_parse_with_fn(toks, cur, p.cursor, p.res) : p \in {parsed}})

\* Primary::parse: a literal
Primary_parse(toks, cur) ==
    The({IF n.res.ret = "Ok"
         THEN [cursor |-> n.cursor, res |-> Ok(LiteralNode(n.res.tok))]
         ELSE n
         : n \in {parse_kind(toks, cur, {"Int"})}})

\* the loop of Unary::parse_left: wrap the expression so far for every
\* further postfix operator
RECURSIVE postfix_loop(_, _, _)
postfix_loop(toks, cur, acc) ==
    The({IF o.res.ret # "Ok" THEN [cursor |-> o.cursor, res |-> Ok(a)]
         ELSE postfix_loop(toks, o.cursor,
                  UnaryNode(a, o.res.tok,
                            Range(a.span.start, o.res.tok.span.end)))
         : <<o, a>> \in {try_op(toks, cur, UnaryOp_parse(toks, cur),
                                PostfixKinds)} \X {acc}})

\* Unary::parse_left: a primary followed by at least one postfix operator
Unary_parse_left(toks, cur) ==
    The({IF p.res.ret # "Ok" THEN p
         ELSE The({IF o.res.ret # "Ok" THEN o
                   ELSE postfix_loop(toks, o.cursor,
                            UnaryNode(p.res.tok, o.res.tok,
                                Range(p.res.tok.span.start,
                                      o.res.tok.span.end)))
                   : o \in {try_op(toks, p.cursor,
                                   UnaryOp_parse(toks, p.cursor),
                                   PostfixKinds)}})
         : p \in {try_fn(toks, cur, Primary_parse(toks, cur))}})

RECURSIVE Binary_parse_expr(_, _, _, _)
RECURSIVE Unary_parse_right(_, _)
RECURSIVE Unary_parse_or_lower(_, _)

\* the operand of an operator: a unary expression or a primary, continued by
\* the binary operators whose precedence is not lower than min
operand_parse(toks, cur, min) ==
    The({IF l.res.ret # "Ok" THEN l
         ELSE Binary_parse_expr(toks, l.cursor, l.res.tok, min)
         : l \in {Unary_parse_or_lower(toks, cur)}})

\* Binary::parse_expr: while the next token is a binary operator whose
\* precedence is not lower than min, consume it, parse its right operand
\* (at precedence + 1 for a left-associative operator, at its precedence for
\* a right-associative one) and combine
Binary_parse_expr(toks, cur, lhs, min) ==
    The({IF o.res.ret # "Ok" THEN [cursor |-> o.cursor, res |-> Ok(left)]
         ELSE The({IF r.res.ret # "Ok" THEN r
                   ELSE Binary_parse_expr(toks, r.cursor,
                            BinaryNode(left, o.res.tok, r.res.tok), min)
                   : r \in {operand_parse(toks, o.cursor,
                               IF bin_associativity(o.res.tok.kind) = "Left"
                               THEN bin_precedence(o.res.tok.kind) + 1
                               ELSE bin_precedence(o.res.tok.kind))}})
         : <<o, left>> \in
               {try_op(toks, cur, BinOp_parse(toks, cur),
                       {k \in BinOpKinds : bin_precedence(k) >= min})}
               \X {lhs}})

\* Unary::parse_right: a prefix operator, then its operand: a unary
\* expression or a primary, continued by the binary operators that bind at
\* least as tightly as exponentiation
Unary_parse_right(toks, cur) ==
    The({IF o.res.ret # "Ok" THEN o
         ELSE The({IF r.res.ret # "Ok" THEN r
                   ELSE [cursor |-> r.cursor,
                         res |-> Ok(UnaryNode(r.res.tok, o.res.tok,
                                    Range(o.res.tok.span.start,
                                          r.res.tok.span.end)))]
                   : r \in {operand_parse(toks, o.cursor, Precedence.Exp)}})
         : o \in {try_op(toks, cur, UnaryOp_parse(toks, cur), PrefixKinds)}})

\* Unary::parse_or_lower: a prefix expression, else a postfix expression,
\* else a primary
Unary_parse_or_lower(toks, cur) ==
    The({IF right.res.ret = "Ok" THEN right
         ELSE The({IF left.res.ret = "Ok" THEN left
                   ELSE Primary_parse(toks, left.cursor)
                   : left \in {try_fn(toks, right.cursor,
                                      Unary_parse_left(toks, right.cursor))}})
         : right \in {try_fn(toks, cur, Unary_parse_right(toks, cur))}})

\* Expr::parse
Expr_parse(toks, cur) == operand_parse(toks, cur, Precedence.Any)

\* ------------------------------------------------------------------ sources
\* a whitespace token between every two tokens
Spaced(kinds) ==
    [i \in 1..(IF kinds = <<>> THEN 0 ELSE 2 * Len(kinds) - 1) |->
        IF i % 2 = 1 THEN kinds[(i + 1) \div 2] ELSE "Whitespace"]

\* operand op operand ... op operand
Chain(ops) ==
    [i \in 1..(2 * Len(ops) + 1) |->
        IF i % 2 = 1 THEN "Int" ELSE ops[i \div 2]]

\* prefix operators, a primary, n postfix operators
Affixed(prefix, n) ==
    prefix \o <<"Int">> \o [i \in 1..n |-> "Factorial"]

AnyKinds ==
    UNION {[1..n -> TokenKinds] : n \in 0..MaxExprTokens}

ChainKinds ==
    UNION {{Chain(ops) : ops \in [1..n -> BinOpKinds \ {"Mod"}]}
           : n \in 1..(MaxOperands - 1)}

AffixedKinds ==
    UNION {{Affixed(prefix, n) : prefix \in [1..m -> {"Not", "Sub"}]}
           : <<m, n>> \in (0..MaxPrefix) \X (0..MaxPostfix)}

\* the sources of the tests of the parser
TestKinds ==
    {<<"Int", "Factorial", "Factorial">>,
     <<"Not", "Whitespace", "Not", "Whitespace", "Sub", "Sub", "Int">>,
     Spaced(<<"Int", "Mul", "Int", "Mul", "Int">>),
     Spaced(<<"Int", "Add", "Int", "Mul", "Int", "Add", "Int">>),
     Spaced(<<"Int", "Exp", "Int", "Exp", "Int">>),
     Spaced(<<"Int", "Add", "Int", "Mul", "Int", "Sub", "Int", "Div", "Int",
              "Exp", "Int">>),
     <<"Sub", "Int", "Whitespace", "Exp", "Whitespace", "Sub", "Int",
       "Whitespace", "Mul", "Whitespace", "Int">>}

\* a negated operand followed by a binary operator: - a op b and
\* - a ^ - b op c
NegatedKinds ==
    {<<"Sub", "Int", op, "Int">> : op \in BinOpKinds}
    \cup {<<"Sub", "Int", "Exp", "Sub", "Int", op, "Int">> : op \in BinOpKinds}

ExprKinds ==
    AnyKinds \cup TestKinds
    \cup ChainKinds \cup {Spaced(k) : k \in ChainKinds}
    \cup AffixedKinds \cup {Spaced(k) : k \in AffixedKinds}
    \cup NegatedKinds \cup {Spaced(k) : k \in NegatedKinds}

\* a parser constructed on the source text of an expression
InitExpr ==
    /\ tokens \in {tokenize_kinds(k) : k \in ExprKinds}
    /\ cursor = 0
    /\ stack = <<>>
    /\ last = Event("new", "", 0, None)
    /\ NoEval
    /\ NoReport

\* try_parse_full::<Expr>(): the cursor it leaves, what Expr::parse
\* returned and where it left the cursor, and the result
try_parse_full_Expr(toks, cur) ==
    The({The({[cursor |-> out.cursor, res |-> out.res,
               fcursor |-> e.cursor, fres |-> e.res]
              : out \in {try_parse_full(toks, cur, e.cursor, e.res)}})
         : e \in {Expr_parse(toks, cur)}})

\* try_parse_full::<Expr>() on the new parser
ParseFull ==
    /\ last.op = "new"
    /\ \E out \in {try_parse_full_Expr(tokens, cursor)} :
           /\ cursor' = out.cursor
           /\ last' = CallEvent("try_parse_full", cursor, out.fcursor, out.fres,
                                None, out.res, FALSE)
    /\ UNCHANGED <<tokens, stack, evalVars, reportVars>>

NextExpr == ParseFull

SpecExpr == InitExpr /\ [][NextExpr]_vars

\* --------------------------------------------------------- unary evaluation
\* impl Eval for Unary (src/cas-eval/src/eval/unary.rs).  A number is held
\* as a count of halves, so that truncation to an integer is not the
\* identity; a complex number as its two components.
MaxEvalDepth == 2   \* most unary operators nested in one expression
MaxHalves    == 3   \* largest magnitude of a number, in halves

UnaryOpKinds == {"Not", "BitNot", "Factorial", "Neg"}

Value_Number(num)      == [variant |-> "Number", num |-> num]
Value_Complex(re, im)  == [variant |-> "Complex", re |-> re, im |-> im]
Value_Boolean(b)       == [variant |-> "Boolean", b |-> b]
Value_Unit             == [variant |-> "Unit"]

Values ==
    {Value_Number(h) : h \in (0 - MaxHalves)..MaxHalves}
    \cup {Value_Complex(re, im) : re \in {0, 2}, im \in {0, 0 - 2}}
    \cup {Value_Boolean(b) : b \in BOOLEAN}
    \cup {Value_Unit}

\* Value::typename
typename(value) == value.variant

\* Error::new of the evaluator: a list of spans and a kind
EvalError_new(spans, kind) == [spans |-> spans, kind |-> kind]

\* the kind InvalidUnaryOperation { op, expr_type }
InvalidUnaryOperation(op, expr_type) ==
    [name |-> "InvalidUnaryOperation", op |-> op, expr_type |-> expr_type]

\* the kind of an error of an operand that is not a unary operation
OtherKind == [name |-> "Other"]

EvalOk(value) == [ret |-> "Ok", value |-> value]
EvalErr(err)  == [ret |-> "Err", err |-> err]

\* consts::int_from_float: truncation toward zero
int_from_float(num) ==
    IF num >= 0 THEN num \div 2 ELSE 0 - ((0 - num) \div 2)

\* consts::float: an integer as a number
float(int) == 2 * int

\* funcs::factorial
RECURSIVE factorial(_)
factorial(n) == IF n <= 1 THEN 1 ELSE n * factorial(n - 1)

\* the operator applied to a complex operand without a test of its kind
apply_complex_any(node, operand) ==
    IF node.op.kind = "Not"
    THEN EvalOk(Value_Boolean(operand.re = 0 /\ operand.im = 0))
    ELSE EvalOk(Value_Complex(0 - operand.re, 0 - operand.im))

\* the error of an unsupported operation with the spans in the other order
invalid_operator_first(node, operand) ==
    EvalErr(EvalError_new(<<node.op.span, node.operand.span>>,
                          InvalidUnaryOperation(node.op.kind,
                                                typename(operand))))

\* Err(Error::new(vec![self.operand.span(), self.op.span.clone()],
\*                InvalidUnaryOperation { op, expr_type }))
invalid(node, operand) ==
    EvalErr(EvalError_new(<<node.operand.span, node.op.span>>,
                          InvalidUnaryOperation(node.op.kind,
                                                typename(operand))))

\* the arm Value::Number of the match
apply_number(node, operand) ==
    CASE node.op.kind = "Not" ->
            EvalOk(Value_Boolean(operand.num = 0))
      [] node.op.kind = "BitNot" ->
            EvalOk(Value_Number(float(0 - int_from_float(operand.num) - 1)))
      [] node.op.kind = "Factorial" ->
            EvalOk(Value_Number(float(factorial(int_from_float(operand.num)))))
      [] node.op.kind = "Neg" ->
            EvalOk(Value_Number(0 - operand.num))

\* the arm Value::Complex of the match
apply_complex(node, operand) ==
    CASE node.op.kind = "Not" ->
            EvalOk(Value_Boolean(operand.re = 0 /\ operand.im = 0))
      [] node.op.kind = "Neg" ->
            EvalOk(Value_Complex(0 - operand.re, 0 - operand.im))
      [] OTHER -> invalid(node, operand)

\* the arm Value::Boolean of the match
apply_boolean(node, operand) ==
    IF node.op.kind = "Not"
    THEN EvalOk(Value_Boolean(~operand.b))
    ELSE invalid(node, operand)

\* the match of Unary::eval on the value of the operand
apply(node, operand) ==
    CASE operand.variant = "Number"  -> apply_number(node, operand)
      [] operand.variant = "Complex" -> apply_complex(node, operand)
      [] operand.variant = "Boolean" -> apply_boolean(node, operand)
      [] operand.variant = "Unit"    -> invalid(node, operand)

\* Unary::eval that applies its operator whatever its operand returned
after_operand_masking(node, r) ==
    IF r.ret # "Ok"
    THEN EvalErr(EvalError_new(<<node.operand.span, node.op.span>>,
                               InvalidUnaryOperation(node.op.kind, "Unit")))
    ELSE apply(node, r.value)

\* Unary::eval from the return of self.operand.eval(ctxt): `?` returns the
\* error of the operand, and a value goes to the match
after_operand(node, r) ==
    IF r.ret # "Ok" THEN r ELSE apply(node, r.value)

\* expressions: an operand that evaluates to a value, an operand whose
\* evaluation fails, and Unary nodes over them
LeafSpan == Range(MaxEvalDepth, MaxEvalDepth + 1)

ValueExpr(value) == [node |-> "Value", value |-> value, span |-> LeafSpan]
FailExpr         == [node |-> "Fail", span |-> LeafSpan]

\* a Unary node: `!` follows its operand, the other operators precede it
UnaryExpr(kind, operand) ==
    IF kind = "Factorial"
    THEN [node    |-> "Unary",
          operand |-> operand,
          op      |-> [kind |-> kind,
                       span |-> Range(operand.span.end, operand.span.end + 1)],
          span    |-> Range(operand.span.start, operand.span.end + 1)]
    ELSE [node    |-> "Unary",
          operand |-> operand,
          op      |-> [kind |-> kind,
                       span |-> Range(operand.span.start - 1,
                                      operand.span.start)],
          span    |-> Range(operand.span.start - 1, operand.span.end)]

Leaves == {ValueExpr(v) : v \in Values} \cup {FailExpr}

RECURSIVE UnaryExprs(_)
UnaryExprs(depth) ==
    IF depth = 0 THEN Leaves
    ELSE LET inner == UnaryExprs(depth - 1)
         IN  inner \cup {UnaryExpr(k, e) : k \in UnaryOpKinds, e \in inner}

\* the eval of an operand that is not a Unary node
leaf_eval(expr) ==
    IF expr.node = "Value" THEN EvalOk(expr.value)
    ELSE EvalErr(EvalError_new(<<expr.span>>, OtherKind))

Step(ev, depth, node, arg, res) ==
    [ev |-> ev, depth |-> depth, node |-> node, arg |-> arg, res |-> res]

\* eval is called on a Unary node
InitEval ==
    /\ tokens = <<>>
    /\ cursor = 0
    /\ stack = <<>>
    /\ last = Event("new", "", 0, None)
    /\ evaluating \in {<<e>> : e \in {u \in UnaryExprs(MaxEvalDepth) :
                                          u.node = "Unary"}}
    /\ returned = None
    /\ trace = <<Step("eval", 1, evaluating[1], None, None)>>
    /\ NoReport

Evaluated == evaluating[Len(evaluating)]

\* let operand = self.operand.eval(ctxt): the call
EvalOperand ==
    /\ evaluating # <<>>
    /\ returned = None
    /\ Evaluated.node = "Unary"
    /\ evaluating' = Append(evaluating, Evaluated.operand)
    /\ trace' = Append(trace, Step("eval", Len(evaluating) + 1,
                                   Evaluated.operand, None, None))
    /\ UNCHANGED <<tokens, cursor, stack, last, returned, reportVars>>

\* the eval of an operand that is not a Unary node returns
EvalLeaf ==
    /\ evaluating # <<>>
    /\ returned = None
    /\ Evaluated.node # "Unary"
    /\ returned' = leaf_eval(Evaluated)
    /\ trace' = Append(trace, Step("return", Len(evaluating), Evaluated,
                                   None, leaf_eval(Evaluated)))
    /\ evaluating' = SubSeq(evaluating, 1, Len(evaluating) - 1)
    /\ UNCHANGED <<tokens, cursor, stack, last, reportVars>>

\* the operand has returned: `?`, the match, and the return of Unary::eval
EvalApply ==
    /\ evaluating # <<>>
    /\ returned # None
    /\ \E res \in {after_operand(Evaluated, returned)} :
           /\ returned' = res
           /\ trace' = Append(trace, Step("return", Len(evaluating),
                                          Evaluated, returned, res))
    /\ evaluating' = SubSeq(evaluating, 1, Len(evaluating) - 1)
    /\ UNCHANGED <<tokens, cursor, stack, last, reportVars>>

NextEval == EvalOperand \/ EvalLeaf \/ EvalApply

SpecEval == InitEval /\ [][NextEval]_vars

\* ---------------------------------------------- InvalidRadixDigit report
\* impl ErrorKind for InvalidRadixDigit
\* (src/cas-parser/src/parser/error/kind.rs): the labels of the report built
\* from the spans of the error.  The spans are those of the invalid digits
\* of a radix literal, and last_op_digit, when present, is the span of the
\* last character of that literal.
MaxLiteral == 3   \* longest radix literal, in bytes
MaxSpans   == 2   \* most spans of one error

\* Option::None and Some((ch, span)) of the field last_op_digit
NoOpDigit == [some |-> FALSE]
SomeOpDigit(ch, sp) == [some |-> TRUE, ch |-> ch, span |-> sp]

\* the non-empty spans within a literal that ends at `end`
DigitSpans(end) ==
    {Range(a, b) : <<a, b>> \in {p \in (0..end) \X (0..end) : p[1] < p[2]}}

SpanLists(end) ==
    UNION {[1..n -> DigitSpans(end)] : n \in 1..MaxSpans}

\* an error with the kind InvalidRadixDigit
RadixErrors ==
    UNION {{[spans |-> sps, kind |-> [last_op_digit |-> lod]]
            : sps \in SpanLists(end),
              lod \in {NoOpDigit}
                      \cup {SomeOpDigit(ch, Range(end - 1, end))
                            : ch \in {"+", "/"}}}
           : end \in 1..MaxLiteral}

\* ariadne::Label::new((src_id, span)), with_message
Label(sp, message) == [span |-> sp, message |-> message]
NoMessage == "none"

\* the first closure that leaves every span as it is
trim_nothing(kind, sp) == sp

\* the first closure of build_report: a span that ends where last_op_digit
\* ends loses its last byte
trim(kind, sp) ==
    IF kind.last_op_digit.some /\ sp.end = kind.last_op_digit.span.end
    THEN Range(sp.start, sp.end - 1)
    ELSE sp

\* the `match ch` of the last closure
operation(ch) ==
    CASE ch = "+" -> "add"
      [] ch = "/" -> "divide"

\* InvalidRadixDigit::build_report: where the report points and its labels
build_report(kind, spans) ==
    [offset |-> spans[1].start,
     labels |->
        LET trimmed  == [i \in 1..Len(spans) |-> trim(kind, spans[i])]
            filtered == SelectSeq(trimmed, LAMBDA sp : sp.start < sp.end)
            labelled == [i \in 1..Len(filtered) |->
                            Label(filtered[i], NoMessage)]
        IN  labelled \o
            (IF kind.last_op_digit.some
             THEN <<Label(kind.last_op_digit.span,
                          operation(kind.last_op_digit.ch))>>
             ELSE <<>>)]

\* an error with invalid radix digits is to be reported
InitReport ==
    /\ tokens = <<>>
    /\ cursor = 0
    /\ stack = <<>>
    /\ last = Event("new", "", 0, None)
    /\ NoEval
    /\ diag \in RadixErrors
    /\ report = None

\* a call of build_report
BuildReport ==
    /\ report = None
    /\ report' = build_report(diag.kind, diag.spans)
    /\ UNCHANGED <<tokens, cursor, stack, last, evalVars, diag>>

NextReport == BuildReport

SpecReport == InitReport /\ [][NextReport]_vars

\* ================================================================== claims
NumTokens == Len(tokens)

\* the zero-width span at the end of the source
EndOfSource ==
    IF tokens = <<>> THEN Range(0, 0)
    ELSE Range(tokens[NumTokens].span.end, tokens[NumTokens].span.end)

\* the span of the token at cursor c, or the end of the source
SpanAt(c) == IF c < NumTokens THEN tokens[c + 1].span ELSE EndOfSource

Failed(ops) == last.op \in ops /\ last.res.ret = "Err"

\* C1: when try_parse or try_parse_with_fn returns an error, the cursor after
\* the call equals the cursor before the call, however many tokens the parse
\* function consumed before it failed.
C1_FailedTryParseRestoresCursor ==
    Failed({"try_parse", "try_parse_with_fn"}) => cursor = last.before

\* a failing try_parse whose parse function had consumed tokens, the last
\* of them through a nested call that succeeded
C1_Witness ==
    /\ Failed({"try_parse", "try_parse_with_fn"})
    /\ last.fcursor > last.before
    /\ last.inner

\* C2: in try_parse_then a failing predicate after a successful parse
\* restores the cursor and its error is returned, exactly as when the parse
\* fails; the call returns Ok only when parse and predicate both succeed.
C2_TryParseThenPredicateFailure ==
    last.op = "try_parse_then" =>
        /\ (last.fres.ret = "Ok" /\ last.pres.ret = "Err")
              => (cursor = last.before /\ last.res = Err(last.pres.err))
        /\ last.fres.ret = "Err"
              => (cursor = last.before /\ last.res = last.fres)
        /\ last.res.ret = "Ok"
              <=> (last.fres.ret = "Ok" /\ last.pres.ret = "Ok")

\* a try_parse_then whose parse consumed tokens and whose predicate failed
C2_Witness ==
    /\ last.op = "try_parse_then"
    /\ last.fres.ret = "Ok"
    /\ last.pres.ret = "Err"
    /\ last.fcursor > last.before

\* C3: try_parse_full returns Ok exactly when the parse succeeds and leaves
\* the cursor at the number of tokens; a successful parse with tokens left
\* gives ExpectedEof with the span of the token at the cursor; no failure
\* moves the cursor from where the parse left it.
C3_TryParseFull ==
    last.op = "try_parse_full" =>
        /\ last.res.ret = "Ok"
              <=> (last.fres.ret = "Ok" /\ last.fcursor = NumTokens)
        /\ (last.fres.ret = "Ok" /\ last.fcursor < NumTokens)
              => last.res = Err(Error_new(tokens[last.fcursor + 1].span, "ExpectedEof"))
        /\ last.res.ret = "Err" => cursor = last.fcursor

\* a try_parse_full that failed with ExpectedEof after consuming tokens
C3_Witness ==
    /\ last.op = "try_parse_full"
    /\ last.res.ret = "Err"
    /\ last.res.err.kind = "ExpectedEof"
    /\ cursor > last.before

\* the positions (from 1) of the non-whitespace tokens at or after cursor c
TokensFrom(c) == {i \in (c + 1)..NumTokens : ~tokens[i].ws}

Least(S) == CHOOSE i \in S : \A j \in S : i <= j

\* C4: when a non-whitespace token exists at or after the cursor, next_token
\* returns the first such token and leaves the cursor just after it.
C4_NextTokenSkipsWhitespace ==
    (last.op = "next_token" /\ TokensFrom(last.before) # {}) =>
        LET i == Least(TokensFrom(last.before))
        IN  /\ last.res = Ok(tokens[i])
            /\ ~last.res.tok.ws
            /\ cursor = i

\* a next_token that skipped whitespace before the token it returned
C4_Witness ==
    /\ last.op = "next_token"
    /\ last.res.ret = "Ok"
    /\ cursor > last.before + 1

\* C5: when no tokens remain, next_token returns UnexpectedEof with the
\* zero-width span at the end of the source (0..0 for an empty stream).
C5_NextTokenAtEnd ==
    (last.op = "next_token" /\ last.before = NumTokens) =>
        last.res = Err(Error_new(EndOfSource, "UnexpectedEof"))

\* a next_token called at the end of a non-empty stream
C5_Witness ==
    /\ last.op = "next_token"
    /\ last.before = NumTokens
    /\ NumTokens > 0
    /\ last.res.ret = "Err"

\* C6 as stated: whenever next_token returns an error, the cursor after the
\* call equals the cursor before the call.
C6_FailedNextTokenKeepsCursor ==
    Failed({"next_token"}) => cursor = last.before

\* C6 amended: whenever next_token returns an error the cursor is at the end
\* of the stream, past the whitespace tokens that remained; it equals the
\* cursor before the call only when no token remained.
C6_FailedNextTokenAtEnd ==
    Failed({"next_token"}) =>
        /\ cursor = NumTokens
        /\ \A i \in (last.before + 1)..NumTokens : tokens[i].ws
        /\ cursor = last.before <=> last.before = NumTokens

\* a next_token that failed after skipping trailing whitespace
C6_Witness ==
    /\ Failed({"next_token"})
    /\ cursor > last.before

\* C7: after any sequence of parser operations, 0 <= cursor <= number of
\* tokens.
C7_CursorInBounds == 0 <= cursor /\ cursor <= NumTokens

\* the cursor at the end of a non-empty stream after a failed operation
\* inside a combinator call
C7_Witness ==
    /\ cursor = NumTokens
    /\ NumTokens > 0
    /\ stack # <<>>
    /\ Failed({"next_token"})

\* C8: the cursor never decreases except at the restore step of a failing
\* try_parse, try_parse_with_fn or try_parse_then, which sets it to the value
\* it had when that call started; a successful combinator call never leaves
\* the cursor below that value.
C8_CursorMonotoneExceptRestore ==
    [][ /\ cursor' < cursor =>
             /\ stack # <<>>
             /\ Top.op \in BacktrackOps
             /\ stack' = Pop
             /\ last'.op = Top.op
             /\ last'.res.ret = "Err"
             /\ cursor' = Top.start
        /\ (stack # <<>> /\ Len(stack') < Len(stack) /\ last'.res.ret = "Ok")
             => cursor' >= Top.start
      ]_vars

\* a restore that lowered the cursor to a start other than 0
C8_Witness ==
    /\ Failed(BacktrackOps)
    /\ last.fcursor > cursor
    /\ cursor = last.before
    /\ cursor > 0

\* C9: the error a failing try_parse returns is the error its parse function
\* produced, with the same kind and the same span.
C9_TryParseErrorUnmodified ==
    Failed({"try_parse", "try_parse_with_fn"}) =>
        /\ last.fres.ret = "Err"
        /\ last.res.err = last.fres.err

\* a failing try_parse whose error carries the span of the position where
\* the parse failed, which is not the span at the restored cursor
C9_Witness ==
    /\ Failed({"try_parse", "try_parse_with_fn"})
    /\ last.res.err.span = SpanAt(last.fcursor)
    /\ last.res.err.span # SpanAt(cursor)

\* C10: span() returns the span of the token at the cursor, or the zero-width
\* end-of-source span; error(kind) and non_fatal() return an error with that
\* span and the given kind or NonFatal; none of them moves the cursor.
C10_SpanErrorNonFatal ==
    /\ last.op \in {"span", "error", "non_fatal"} => cursor = last.before
    /\ last.op = "span" => last.res.tok.span = SpanAt(last.before)
    /\ last.op = "error" => last.res.err = Error_new(SpanAt(last.before), last.arg)
    /\ last.op = "non_fatal" => last.res.err = Error_new(SpanAt(last.before), "NonFatal")

\* an error built at a token after the first one
C10_Witness ==
    /\ last.op = "error"
    /\ 0 < cursor
    /\ cursor < NumTokens
    /\ last.res.err.span = tokens[cursor + 1].span


\* C11: prev_token returns the token at index cursor - 1 when cursor > 0 and
\* nothing when cursor = 0; it never changes the cursor.
C11_PrevToken ==
    last.op = "prev_token" =>
        /\ cursor = last.before
        /\ last.before > 0 => last.res = Ok(tokens[last.before])
        /\ last.before = 0 => last.res = None

\* a prev_token called after a token was consumed
C11_Witness ==
    /\ last.op = "prev_token"
    /\ last.before > 0
    /\ last.res.ret = "Ok"
    /\ last.res.tok.index = cursor


\* C12: Parser::new starts with cursor 0 and, when tokenization of the source
\* fails, returns the tokenizer's error to the caller; it does not panic.
C12_NewReturnsTokenizerError ==
    last.op = "new" =>
        /\ cursor = 0
        /\ last.arg = "invalid" => last.res = Err(TokenizerError)
        /\ last.res.ret # "Panic"


\* ------------------------------------------------- claims on the grammar
\* try_parse_full::<Expr>() has returned
Parsed == last.op = "try_parse_full"

\* the tokens of the stream that are not whitespace, and their kinds
Solid == SelectSeq(tokens, LAMBDA t : ~t.ws)
SolidKinds == [i \in 1..Len(Solid) |-> Solid[i].kind]

\* a tree without its spans
RECURSIVE Shape(_)
Shape(n) ==
    CASE n.node = "Literal" -> <<"Literal">>
      [] n.node = "Unary"   -> <<"Unary", n.op, Shape(n.operand)>>
      [] n.node = "Binary"  -> <<"Binary", n.op, Shape(n.lhs), Shape(n.rhs)>>

SameOutcome(a, b) ==
    \/ a.ret = "Ok"  /\ b.ret = "Ok"  /\ Shape(a.tok) = Shape(b.tok)
    \/ a.ret = "Err" /\ b.ret = "Err" /\ a.err.kind = b.err.kind

\* C13: whitespace tokens never affect the parse outcome: try_parse_full on a
\* stream and on the same stream without its whitespace tokens both succeed
\* with the same tree shape or both fail with the same error kind.
C13_WhitespaceInsensitive ==
    Parsed =>
        SameOutcome(last.res,
                    try_parse_full_Expr(tokenize_kinds(SolidKinds), 0).res)


\* C14: try_parse_full of an expression on an empty token stream fails with
\* an UnexpectedEof error.
C14_EmptyInput ==
    (Parsed /\ tokens = <<>>) =>
        /\ last.res.ret = "Err"
        /\ last.res.err.kind = "UnexpectedEof"

\* the empty stream has been parsed
C14_Witness == Parsed /\ tokens = <<>> /\ last.res.ret = "Err"

\* C15: the result of try_parse_full on an expression is a value or an error
\* whose kind is not NonFatal.
C15_NonFatalNeverEscapes ==
    Parsed => ~(last.res.ret = "Err" /\ last.res.err.kind = "NonFatal")

\* a parse that failed with another error after an attempt at the final
\* cursor had ended in a NonFatal error: the token there is an operator that
\* is not a postfix operator
C15_Witness ==
    /\ Parsed
    /\ last.res.ret = "Err"
    /\ last.res.err.kind # "NonFatal"
    /\ LET o == try_op(tokens, cursor, UnaryOp_parse(tokens, cursor), PostfixKinds)
       IN  o.res.ret = "Err" /\ o.res.err.kind = "NonFatal"


\* the stream is operand op operand ... op operand, with at least two
\* operands and every operator in ops
IsChainOf(ops) ==
    /\ Len(Solid) >= 3
    /\ Len(Solid) % 2 = 1
    /\ \A i \in 1..Len(Solid) :
          IF i % 2 = 1 THEN SolidKinds[i] = "Int" ELSE SolidKinds[i] \in ops

NumOperands == (Len(Solid) + 1) \div 2
Operand(k)  == LiteralNode(Solid[2 * k - 1])
Operator(k) == [kind |-> Solid[2 * k].kind, span |-> Solid[2 * k].span]

TrailingWhitespace == tokens # <<>> /\ tokens[Len(tokens)].ws

\* Expr::parse produced the tree, and try_parse_full returned it unless
\* whitespace follows the expression
ParsedTree(tree) ==
    /\ last.fres = Ok(tree)
    /\ ~TrailingWhitespace => last.res = Ok(tree)

\* (...((a1 op a2) op a3)...) op ak
RECURSIVE LeftNested(_)
LeftNested(k) ==
    IF k = 1 THEN Operand(1)
    ELSE BinaryNode(LeftNested(k - 1), Operator(k - 1), Operand(k))

\* ak op (... op (a(n-1) op an)...)
RECURSIVE RightNested(_)
RightNested(k) ==
    IF k = NumOperands THEN Operand(k)
    ELSE BinaryNode(Operand(k), Operator(k), RightNested(k + 1))

\* the classes of left-associative binary operators
LeftClasses == {{"Add", "Sub"}, {"Mul", "Div", "Mod"}}

\* C16: a chain of left-associative binary operators of one precedence class
\* parses to the left-nested tree: the root's rhs is the last operand and its
\* lhs the tree of the operands before it.
C16_LeftAssociative ==
    (Parsed /\ \E class \in LeftClasses : IsChainOf(class)) =>
        ParsedTree(LeftNested(NumOperands))

\* a chain of three or more operands, two operators of one class, parsed
C16_Witness ==
    /\ Parsed
    /\ IsChainOf({"Add", "Sub"})
    /\ NumOperands >= 3
    /\ Operator(1).kind # Operator(2).kind
    /\ last.res.ret = "Ok"
    /\ last.res.tok.lhs.node = "Binary"
    /\ last.res.tok.rhs = Operand(NumOperands)

\* C17: a chain of exponentiation operators parses to the right-nested tree:
\* the root's lhs is the first operand and its rhs the tree of the rest.
C17_RightAssociative ==
    (Parsed /\ IsChainOf({"Exp"})) => ParsedTree(RightNested(1))

\* a chain of three or more operands of `^`, parsed
C17_Witness ==
    /\ Parsed
    /\ IsChainOf({"Exp"})
    /\ NumOperands >= 3
    /\ last.res.ret = "Ok"
    /\ last.res.tok.lhs = Operand(1)
    /\ last.res.tok.rhs.node = "Binary"

\* no Binary node has a Binary operand of lower precedence than its own
RECURSIVE PrecOrdered(_)
PrecOrdered(n) ==
    n.node = "Binary" =>
        /\ \A c \in {n.lhs, n.rhs} :
              c.node = "Binary" => bin_precedence(c.op) >= bin_precedence(n.op)
        /\ PrecOrdered(n.lhs)
        /\ PrecOrdered(n.rhs)

\* the kinds of the tokens of a tree of binary operators, in source order
RECURSIVE Flatten(_)
Flatten(n) ==
    IF n.node = "Binary" THEN Flatten(n.lhs) \o <<n.op>> \o Flatten(n.rhs)
    ELSE <<"Int">>

Lit == <<"Literal">>
Bin(op, l, r) == <<"Binary", op, l, r>>

\* 3 + 4 * 5 + 6 and 1 + 2 * 3 - 4 / 5 ^ 6
MixedA == <<"Int", "Add", "Int", "Mul", "Int", "Add", "Int">>
MixedB == <<"Int", "Add", "Int", "Mul", "Int", "Sub", "Int", "Div", "Int",
            "Exp", "Int">>
TreeA == Bin("Add", Bin("Add", Lit, Bin("Mul", Lit, Lit)), Lit)
TreeB == Bin("Sub", Bin("Add", Lit, Bin("Mul", Lit, Lit)),
                    Bin("Div", Lit, Bin("Exp", Lit, Lit)))

\* C18: in a chain that mixes binary operators of different precedence
\* classes, an operator of lower precedence than the minimum is not consumed
\* by the inner parse: the tree holds all the tokens in order and no Binary
\* node has a Binary operand of lower precedence; 3 + 4 * 5 + 6 is
\* Add(Add(3, Mul(4, 5)), 6) and 1 + 2 * 3 - 4 / 5 ^ 6 is
\* Sub(Add(1, Mul(2, 3)), Div(4, Exp(5, 6))).
C18_MixedPrecedence ==
    (Parsed /\ IsChainOf(BinOpKinds)) =>
        /\ last.fres.ret = "Ok"
        /\ ~TrailingWhitespace => last.res = last.fres
        /\ Flatten(last.fres.tok) = SolidKinds
        /\ last.fres.tok.span = Range(Solid[1].span.start, Solid[Len(Solid)].span.end)
        /\ PrecOrdered(last.fres.tok)
        /\ SolidKinds = MixedA => Shape(last.fres.tok) = TreeA
        /\ SolidKinds = MixedB => Shape(last.fres.tok) = TreeB

\* 1 + 2 * 3 - 4 / 5 ^ 6 has been parsed
C18_Witness ==
    /\ Parsed
    /\ SolidKinds = MixedB
    /\ last.res.ret = "Ok"
    /\ Shape(last.res.tok) = TreeB

\* the stream is one or more prefix operators and a primary
IsPrefixChain ==
    /\ Len(Solid) >= 2
    /\ SolidKinds[Len(Solid)] = "Int"
    /\ \A i \in 1..(Len(Solid) - 1) : SolidKinds[i] \in {"Not", "Sub"}

\* op_i (op_(i+1) (... (op_n primary)))
RECURSIVE PrefixNested(_)
PrefixNested(i) ==
    IF i = Len(Solid) THEN LiteralNode(Solid[i])
    ELSE UnaryNode(PrefixNested(i + 1),
                   [kind |-> IF Solid[i].kind = "Sub" THEN "Neg" ELSE "Not"],
                   Range(Solid[i].span.start, Solid[Len(Solid)].span.end))

\* C19: a chain of n prefix operators before a primary parses to n nested
\* Unary nodes in source order: the first operator is the outermost node and
\* the last one wraps the primary.
C19_PrefixChain ==
    (Parsed /\ IsPrefixChain) => ParsedTree(PrefixNested(1))

\* `not not - - primary` has been parsed
C19_Witness ==
    /\ Parsed
    /\ SolidKinds = <<"Not", "Not", "Sub", "Sub", "Int">>
    /\ last.res.ret = "Ok"
    /\ last.res.tok.op = "Not"
    /\ last.res.tok.operand.operand.operand.op = "Neg"
    /\ last.res.tok.operand.operand.operand.operand.node = "Literal"

\* the stream is a primary and one or more postfix operators
IsPostfixChain ==
    /\ Len(Solid) >= 2
    /\ SolidKinds[1] = "Int"
    /\ \A i \in 2..Len(Solid) : SolidKinds[i] = "Factorial"

\* ((primary !) !) ... ! with k operators
RECURSIVE PostfixNested(_)
PostfixNested(k) ==
    IF k = 0 THEN LiteralNode(Solid[1])
    ELSE UnaryNode(PostfixNested(k - 1), [kind |-> "Factorial"],
                   Range(Solid[1].span.start, Solid[k + 1].span.end))

\* C20: a chain of n postfix `!` operators after a primary parses to n nested
\* Factorial nodes: the first `!` wraps the primary and the last one is the
\* outermost node.
C20_PostfixChain ==
    (Parsed /\ IsPostfixChain) => ParsedTree(PostfixNested(Len(Solid) - 1))

\* a primary with two or more `!`, separated by whitespace, has been parsed
C20_Witness ==
    /\ Parsed
    /\ IsPostfixChain
    /\ Len(Solid) >= 3
    /\ Len(tokens) > Len(Solid)
    /\ last.res.ret = "Ok"
    /\ last.res.tok.span.end = Solid[Len(Solid)].span.end
    /\ last.res.tok.operand.span.end = Solid[Len(Solid) - 1].span.end


Un(op, operand) == <<"Unary", op, operand>>

OperatorTokens(op) ==
    {Solid[i] : i \in {j \in 1..Len(Solid) :
        Solid[j].kind = (IF op = "Neg" THEN "Sub" ELSE op)}}

Contains(outer, inner) ==
    outer.start <= inner.start /\ inner.end <= outer.end

\* every node of the tree has start <= end and the span of its parts
RECURSIVE WellSpanned(_)
WellSpanned(n) ==
    /\ n.span.start <= n.span.end
    /\ CASE n.node = "Literal" ->
              \E i \in 1..Len(Solid) :
                  Solid[i].kind = "Int" /\ Solid[i].span = n.span
         [] n.node = "Binary" ->
              /\ n.span = Range(n.lhs.span.start, n.rhs.span.end)
              /\ Contains(n.span, n.lhs.span)
              /\ Contains(n.span, n.rhs.span)
              /\ n.lhs.span.end <= n.rhs.span.start
              /\ WellSpanned(n.lhs)
              /\ WellSpanned(n.rhs)
         [] n.node = "Unary" ->
              /\ Contains(n.span, n.operand.span)
              /\ WellSpanned(n.operand)
              /\ IF n.op \in PrefixKinds
                 THEN /\ n.span.end = n.operand.span.end
                      /\ \E t \in OperatorTokens(n.op) :
                            /\ t.span.start = n.span.start
                            /\ t.span.end <= n.operand.span.start
                 ELSE /\ n.span.start = n.operand.span.start
                      /\ \E t \in OperatorTokens(n.op) :
                            /\ t.span.end = n.span.end
                            /\ n.operand.span.end <= t.span.start

\* C22: every node produced by a successful parse has start <= end and the
\* span of its parts: a Binary node from the start of its lhs to the end of
\* its rhs, a prefix Unary node from the start of its operator token to the
\* end of its operand, a postfix Unary node from the start of its operand to
\* the end of its operator token; every child's span lies within its
\* parent's, and the tree of a whole source spans all its tokens.
C22_SpansAreUnions ==
    (Parsed /\ last.fres.ret = "Ok") =>
        /\ WellSpanned(last.fres.tok)
        /\ last.res.ret = "Ok" =>
              last.res.tok.span =
                  Range(Solid[1].span.start, Solid[Len(Solid)].span.end)

\* a tree with a Binary node over a prefix and a postfix Unary node, with
\* whitespace in the source, has been parsed
C22_Witness ==
    /\ Parsed
    /\ last.res.ret = "Ok"
    /\ Len(tokens) > Len(Solid)
    /\ last.res.tok.node = "Binary"
    /\ last.res.tok.lhs.node = "Unary"
    /\ last.res.tok.lhs.op \in PrefixKinds
    /\ last.res.tok.lhs.span.start < last.res.tok.lhs.operand.span.start


\* the steps in which a Unary node applied its operator to a value
Applications ==
    {i \in 1..Len(trace) :
        /\ trace[i].ev = "return"
        /\ trace[i].node.node = "Unary"
        /\ trace[i].arg.ret = "Ok"}

\* the pairs of operand variant and operator that the dispatch table supports
SupportedPairs ==
    ({"Number"} \X {"Not", "BitNot", "Factorial", "Neg"})
    \cup ({"Complex"} \X {"Not", "Neg"})
    \cup {<<"Boolean", "Not">>}

\* the value is zero (a number), zero in both components (a complex number)
\* or false (a boolean)
IsZero(value) ==
    CASE value.variant = "Number"  -> value.num = 0
      [] value.variant = "Complex" -> value.re = 0 /\ value.im = 0
      [] value.variant = "Boolean" -> ~value.b

\* C23: unary evaluation follows the dispatch table: it succeeds exactly for
\* Number with any operator, Complex with Not or Neg and Boolean with Not;
\* Not yields Boolean(true) for Number 0 and Complex 0 + 0i, Boolean(false)
\* for any other Number or Complex and Boolean(not b) for Boolean b; Neg
\* yields a Number for a Number and a Complex for a Complex; BitNot and
\* Factorial yield a Number.
C23_DispatchTable ==
    \A i \in Applications :
        LET k == trace[i].node.op.kind
            v == trace[i].arg.value
            r == trace[i].res
        IN  /\ r.ret = "Ok" <=> <<v.variant, k>> \in SupportedPairs
            /\ r.ret = "Ok" =>
                 CASE k = "Not" -> r.value = Value_Boolean(IsZero(v))
                   [] k = "Neg" -> /\ r.value.variant = v.variant
                                   /\ v.variant \in {"Number", "Complex"}
                   [] k \in {"BitNot", "Factorial"} ->
                                   r.value.variant = "Number"

\* Not of the complex zero has yielded Boolean(true), and the Factorial of
\* that boolean has failed
C23_Witness ==
    \E i, j \in Applications :
        /\ i < j
        /\ trace[i].arg.value = Value_Complex(0, 0)
        /\ trace[i].node.op.kind = "Not"
        /\ trace[i].res = EvalOk(Value_Boolean(TRUE))
        /\ trace[j].arg = trace[i].res
        /\ trace[j].node.op.kind = "Factorial"
        /\ trace[j].res.ret = "Err"

\* C24: every unsupported combination (Factorial or BitNot on Complex;
\* BitNot, Factorial or Neg on Boolean; any operator on Unit) fails with an
\* InvalidUnaryOperation error that names the operator of the node and the
\* type name of the operand's value, with exactly two spans: the span of
\* the operand, then the span of the operator token.
C24_InvalidUnaryOperation ==
    \A i \in Applications :
        LET n == trace[i].node
            v == trace[i].arg.value
            r == trace[i].res
        IN  (\/ v.variant = "Complex" /\ n.op.kind \in {"Factorial", "BitNot"}
             \/ v.variant = "Boolean" /\ n.op.kind \in {"BitNot", "Factorial", "Neg"}
             \/ v.variant = "Unit") =>
                /\ r.ret = "Err"
                /\ r.err.kind.name = "InvalidUnaryOperation"
                /\ r.err.kind.op = n.op.kind
                /\ r.err.kind.expr_type = v.variant
                /\ Len(r.err.spans) = 2
                /\ r.err.spans = <<n.operand.span, n.op.span>>

\* BitNot of a complex number that a Neg produced has failed; its operand is
\* the inner Unary node, which is wider than the operator token
C24_Witness ==
    \E i \in Applications :
        /\ trace[i].arg.value.variant = "Complex"
        /\ trace[i].node.op.kind = "BitNot"
        /\ trace[i].node.operand.node = "Unary"
        /\ trace[i].res.ret = "Err"
        /\ trace[i].res.err.spans[1] = trace[i].node.operand.span
        /\ trace[i].res.err.spans[1] # trace[i].res.err.spans[2]

\* the steps of the given kind at the given depth
StepsAt(ev, depth) ==
    {i \in 1..Len(trace) : trace[i].ev = ev /\ trace[i].depth = depth}

\* the returns of Unary nodes
UnaryReturns ==
    {i \in 1..Len(trace) :
        trace[i].ev = "return" /\ trace[i].node.node = "Unary"}

\* C25: a Unary node evaluates its operand exactly once and before it
\* applies its operator; when the evaluation of the operand fails, that
\* error is returned unchanged and no InvalidUnaryOperation error is made
\* for the outer operator, so the error of the innermost failing operand or
\* operator is the one reported.
C25_OperandFirst ==
    /\ \A d \in 1..(MaxEvalDepth + 2) : Cardinality(StepsAt("eval", d)) <= 1
    /\ \A i \in UnaryReturns :
          LET d == trace[i].depth
          IN  /\ \E c \in StepsAt("eval", d + 1) :
                    /\ c < i
                    /\ \A s \in StepsAt("eval", d) : s < c
                    /\ trace[c].node = trace[i].node.operand
                    /\ \E m \in StepsAt("return", d + 1) :
                          /\ c < m /\ m < i
                          /\ StepsAt("return", d + 1) = {m}
                          /\ trace[i].arg = trace[m].res
              /\ trace[i].arg.ret = "Err" => trace[i].res = trace[i].arg
    /\ (evaluating = <<>> /\ returned.ret = "Err") =>
          LET failed == {i \in 1..Len(trace) :
                            trace[i].ev = "return" /\ trace[i].res.ret = "Err"}
          IN  \E first \in failed :
                  /\ \A i \in failed : first <= i
                  /\ returned = trace[first].res

\* an operator has failed inside an operator that does not support the
\* operand either, and the evaluation has returned the error of the inner one
C25_Witness ==
    /\ evaluating = <<>>
    /\ returned.ret = "Err"
    /\ \E i, j \in UnaryReturns :
          /\ i < j
          /\ trace[i].arg.ret = "Ok"
          /\ trace[i].arg.value.variant = "Boolean"
          /\ trace[i].node.op.kind = "Factorial"
          /\ trace[j].node.op.kind = "BitNot"
          /\ trace[j].arg = trace[i].res
          /\ returned = trace[i].res
          /\ returned.err.kind.op = "Factorial"


\* the labels made from the spans of the error: all but the additional one
SpanLabels ==
    IF diag.kind.last_op_digit.some
    THEN SubSeq(report.labels, 1, Len(report.labels) - 1)
    ELSE report.labels

Covers(outer, inner) ==
    outer.start <= inner.start /\ inner.end <= outer.end

\* C26: in the report of InvalidRadixDigit, when last_op_digit is present
\* every span of the error that ends where last_op_digit ends is shortened
\* by one at its end, the spans that are empty after that are dropped, the
\* other spans are labelled unchanged, and exactly one more label is added,
\* on the span of last_op_digit (`add` for `+`, `divide` for `/`); when
\* last_op_digit is absent no span is shortened and no label is added.  No
\* label made from a span covers the trailing operator character.
C26_RadixDigitReport ==
    report # None =>
        LET lod == diag.kind.last_op_digit
            sps == diag.spans
            shortened(i) == lod.some /\ sps[i].end = lod.span.end
            kept == {i \in 1..Len(sps) :
                        ~(shortened(i) /\ sps[i].start >= sps[i].end - 1)}
            expected(i) == IF shortened(i)
                           THEN Range(sps[i].start, sps[i].end - 1)
                           ELSE sps[i]
        IN  /\ Len(SpanLabels) = Cardinality(kept)
            /\ \A i \in kept :
                  SpanLabels[Cardinality({j \in kept : j <= i})] =
                      Label(expected(i), NoMessage)
            /\ lod.some =>
                  /\ Len(report.labels) = Len(SpanLabels) + 1
                  /\ report.labels[Len(report.labels)] =
                        Label(lod.span,
                              IF lod.ch = "+" THEN "add" ELSE "divide")
                  /\ \A i \in 1..Len(SpanLabels) :
                        ~Covers(SpanLabels[i].span, lod.span)
            /\ ~lod.some =>
                  /\ Len(report.labels) = Len(sps)
                  /\ \A i \in 1..Len(sps) :
                        report.labels[i] = Label(sps[i], NoMessage)

\* a report has been built from a span that was shortened and a span that
\* was dropped, with the additional label for `/`
C26_Witness ==
    /\ report # None
    /\ diag.kind.last_op_digit.some
    /\ diag.kind.last_op_digit.ch = "/"
    /\ Len(diag.spans) = 2
    /\ diag.spans[2] = diag.kind.last_op_digit.span
    /\ diag.spans[1].end = diag.kind.last_op_digit.span.end
    /\ Len(report.labels) = 2
    /\ report.labels[1].span.end = diag.spans[1].end - 1
    /\ report.labels[2].message = "divide"

====
